---- MODULE Spec2Model ----
(***************************************************************************)
(* A model of src/src/win32.rs: the process-wide FILE_DIALOG_MANAGER       *)
(* (a Mutex<Option<FileDialogManager>>), the MgrBorrow guard handed out by *)
(* new / get / try_get / get_or_set, and the OpenDialog / SaveDialog       *)
(* sessions that borrow the manager and drive one OS dialog handle.        *)
(*                                                                         *)
(* Text is a sequence of UTF-16 code units.  An Option is a sequence of    *)
(* length 0 (None) or 1 (Some).  The OS dialog object is modelled by the   *)
(* settings the code writes into it; every OS call may fail, and which one *)
(* fails is an input of the operation.                                     *)
(***************************************************************************)
EXTENDS Integers, Sequences, FiniteSets, TLC

VARIABLES mgr, lockOwner, poisoned, pc, args, handle, last

vars == <<mgr, lockOwner, poisoned, pc, args, handle, last>>

-----------------------------------------------------------------------------
(* Bounds of the model *)

MaxThreads == 2
MaxWindow == 2
MaxChar == 2
MaxFilters == 1

Threads == 1..MaxThreads
Windows == 1..MaxWindow

None == <<>>
Some(v) == <<v>>

(* A unit that is half of a surrogate pair: alone it is not valid UTF-16. *)
HighSurrogate == 55296
Chars == 65..(64 + MaxChar)
Units == Chars \cup {HighSurrogate}

(* PathBuf values: on this platform a path is any sequence of 16-bit units. *)
Paths == {<<u>> : u \in Units}

TitleOpts == {None, Some(<<84>>)}

FilterValues == {[extension |-> <<112>>, description |-> <<73>>]}
FilterLists == UNION {[1..n -> FilterValues] : n \in 0..MaxFilters}
FilterOpts == {None} \cup {Some(l) : l \in FilterLists}

(* The OS calls an operation makes that can return a failure HRESULT. *)
OsCalls == {"SetFileTypes", "GetOptions", "SetOptions", "SetTitle",
            "SHCreateItemFromParsingName", "SetDefaultFolder",
            "GetResult", "GetDisplayName"}

(* What the OS does during one operation: which call fails (a call the
   operation does not reach cannot fail), how Show ends (the user confirms,
   the user dismisses, or the call fails for another reason), and the path of
   the item the user chose.  The first failure ends the operation, so one
   failing call per outcome covers every pattern of failures. *)
OsOutcomes ==
    {[fail |-> f, show |-> "confirmed", chosen |-> <<65>>] : f \in OsCalls}
    \cup {[fail |-> "none", show |-> sh, chosen |-> <<65>>] :
             sh \in {"cancelled", "failed"}}
    \cup {[fail |-> "none", show |-> "confirmed", chosen |-> c] : c \in Paths}

-----------------------------------------------------------------------------
(* Text helpers *)

RECURSIVE IsValidUtf16(_)
IsValidUtf16(s) ==
    IF s = <<>> THEN TRUE
    ELSE IF Head(s) >= 55296 /\ Head(s) <= 56319
         THEN /\ Len(s) >= 2
              /\ s[2] >= 56320 /\ s[2] <= 57343
              /\ IsValidUtf16(Tail(Tail(s)))
    ELSE IF Head(s) >= 56320 /\ Head(s) <= 57343 THEN FALSE
    ELSE IsValidUtf16(Tail(s))

(* Path::to_str: None unless the path is valid Unicode. *)
to_str(p) == IF IsValidUtf16(p) THEN Some(p) ELSE None

(* FileDialogUtils::to_win32_wide: the UTF-16 units, then a null terminator. *)
to_win32_wide(s) == Append(s, 0)

(* What the OS reads through a PCWSTR: the units before the first null. *)
RECURSIVE FromWide(_)
FromWide(w) ==
    IF w = <<>> \/ Head(w) = 0 THEN <<>> ELSE <<Head(w)>> \o FromWide(Tail(w))

(* PWSTR::to_string: decodes the units before the null; fails on invalid UTF-16. *)
PwstrToString(w) == to_str(FromWide(w))

(* FileTypeFilterWin32::new *)
FileTypeFilterWin32(extension, description) ==
    [extension |-> to_win32_wide(<<42, 46>> \o extension),
     description |-> to_win32_wide(description)]

(* The COMDLG_FILTERSPEC list built by open / save from the caller's filters. *)
FilterSpecs(filter) ==
    [i \in 1..Len(filter) |->
        LET f == FileTypeFilterWin32(filter[i].extension, filter[i].description)
        IN  [pszName |-> f.description, pszSpec |-> f.extension]]

-----------------------------------------------------------------------------
(* FileDialogManager *)

FileDialogManager(default, window) == [default |-> default, window |-> window]

get_default_open(m) == m.default
get_default_save(m) == m.default
(* Mutants of the setters: one that stores nothing, one that also rebinds
   the window. *)
set_default_open_noop(m, value) == m
set_default_save_rebinds(m, value) == [default |-> value, window |-> 0]

set_default_open(m, value) == [m EXCEPT !.default = value]
set_default_save(m, value) == [m EXCEPT !.default = value]
get_window_handle(m) == m.window

(* FileDialog::get_default_title *)
get_default_title(kind) ==
    IF kind = "open"
    THEN <<79, 112, 101, 110, 32, 97, 32, 102, 105, 108, 101>>
    ELSE <<83, 97, 118, 101, 32, 97, 32, 102, 105, 108, 101>>

(* FileDialog::get_title *)
get_title(kind, title) ==
    IF title # None THEN to_win32_wide(title[1])
    ELSE to_win32_wide(get_default_title(kind))

(* FileDialog::get_default_path / set_default_path of the two sessions *)
get_default_path(kind, m) ==
    IF kind = "open" THEN get_default_open(m) ELSE get_default_save(m)
set_default_path(kind, m, file) ==
    IF kind = "open" THEN set_default_open(m, file) ELSE set_default_save(m, file)

-----------------------------------------------------------------------------
(* The OS dialog object, as the settings the code writes into it *)

(* CoCreateInstance: a fresh dialog object. *)
NewHandle(kind) ==
    [kind |-> kind, pick |-> FALSE, types |-> None, title |-> None,
     folder |-> None, parent |-> None]

SetFileTypes(h, types) == [h EXCEPT !.types = Some(types)]
SetTitle(h, w) == [h EXCEPT !.title = Some(FromWide(w))]
(* GetOptions, then SetOptions(options | FOS_PICKFOLDERS) *)
SetPickFolders(h) == [h EXCEPT !.pick = TRUE]
(* SHCreateItemFromParsingName, then SetDefaultFolder *)
SetDefaultFolder(h, w) == [h EXCEPT !.folder = Some(FromWide(w))]
(* Show(Some(window)) *)
Show(h, window) == [h EXCEPT !.parent = Some(window)]

-----------------------------------------------------------------------------
(* Results of one session operation: the handle afterwards, the value
   returned, the OS call that failed, how Show ended, the manager afterwards,
   and whether the operation panicked instead of returning. *)

Out(h, m, res, val, failed, show) ==
    [h |-> h, m |-> m, res |-> res, val |-> val, failed |-> failed, show |-> show]

Err(h, m, failed, show) == Out(h, m, "err", None, failed, show)
Panic(h, m) == Out(h, m, "panic", None, "none", "none")

-----------------------------------------------------------------------------
(* OpenDialog *)

(* Mutants of open_confirmed: one that returns the path without remembering
   it, one that remembers the path before it has been decoded. *)
open_confirmed_forgets(h, m, fail, chosen) ==
    IF fail = "GetResult" THEN Err(h, m, "GetResult", "confirmed")
    ELSE IF fail = "GetDisplayName" THEN Err(h, m, "GetDisplayName", "confirmed")
    ELSE LET out == PwstrToString(to_win32_wide(chosen))
         IN  IF out = None THEN Err(h, m, "to_string", "confirmed")
             ELSE Out(h, m, "ok_some", Some(out[1]), "none", "confirmed")

open_confirmed_early(h, m, fail, chosen) ==
    IF fail = "GetResult" THEN Err(h, m, "GetResult", "confirmed")
    ELSE IF fail = "GetDisplayName" THEN Err(h, m, "GetDisplayName", "confirmed")
    ELSE LET path == to_win32_wide(chosen)
             m1 == set_default_path("open", m, FromWide(path))
             out == PwstrToString(path)
         IN  IF out = None THEN Err(h, m1, "to_string", "confirmed")
             ELSE Out(h, m1, "ok_some", Some(out[1]), "none", "confirmed")

(* open_inner, after Show succeeded: GetResult, GetDisplayName, to_string,
   set_default_path, CoTaskMemFree, Ok(Some(out)).  `chosen` is the item the
   OS dialog holds; the OS returns its path as a null-terminated string. *)
open_confirmed(h, m, fail, chosen) ==
    IF fail = "GetResult" THEN Err(h, m, "GetResult", "confirmed")
    ELSE IF fail = "GetDisplayName" THEN Err(h, m, "GetDisplayName", "confirmed")
    ELSE LET path == to_win32_wide(chosen)
             out == PwstrToString(path)
         IN  IF out = None THEN Err(h, m, "to_string", "confirmed")
             ELSE Out(h, set_default_path("open", m, out[1]), "ok_some",
                      Some(out[1]), "none", "confirmed")

(* OpenDialog::open_inner *)
open_inner(h, m, title, fail, show, chosen) ==
    IF fail = "SetTitle" THEN Err(h, m, "SetTitle", "none")
    ELSE LET h1 == SetTitle(h, get_title("open", title))
             path == to_str(get_default_path("open", m))
         IN  IF path = None THEN Panic(h1, m)
             ELSE IF fail = "SHCreateItemFromParsingName"
                  THEN Err(h1, m, "SHCreateItemFromParsingName", "none")
             ELSE IF fail = "SetDefaultFolder"
                  THEN Err(h1, m, "SetDefaultFolder", "none")
             ELSE LET h2 == SetDefaultFolder(h1, to_win32_wide(path[1]))
                      h3 == Show(h2, get_window_handle(m))
                  IN  IF show = "confirmed"
                      THEN open_confirmed(h3, m, fail, chosen)
                      ELSE Out(h3, m, "ok_none", None,
                               IF show = "failed" THEN "Show" ELSE "none", show)

(* OpenDialog::open *)
open(h, m, filter, title, fail, show, chosen) ==
    IF filter # None /\ fail = "SetFileTypes" THEN Err(h, m, "SetFileTypes", "none")
    ELSE open_inner(IF filter # None THEN SetFileTypes(h, FilterSpecs(filter[1])) ELSE h,
                    m, title, fail, show, chosen)

(* OpenDialog::open_folder *)
open_folder(h, m, title, fail, show, chosen) ==
    IF fail = "GetOptions" THEN Err(h, m, "GetOptions", "none")
    ELSE IF fail = "SetOptions" THEN Err(h, m, "SetOptions", "none")
    ELSE open_inner(SetPickFolders(h), m, title, fail, show, chosen)

-----------------------------------------------------------------------------
(* SaveDialog *)

(* save, after Show succeeded *)
save_confirmed(h, m, fail, chosen) ==
    IF fail = "GetResult" THEN Err(h, m, "GetResult", "confirmed")
    ELSE IF fail = "GetDisplayName" THEN Err(h, m, "GetDisplayName", "confirmed")
    ELSE LET path == to_win32_wide(chosen)
             out == PwstrToString(path)
         IN  IF out = None THEN Err(h, m, "to_string", "confirmed")
             ELSE Out(h, set_default_path("save", m, out[1]), "ok_some",
                      Some(out[1]), "none", "confirmed")

(* SaveDialog::save *)
save(h, m, filter, title, fail, show, chosen) ==
    IF filter # None /\ fail = "SetFileTypes" THEN Err(h, m, "SetFileTypes", "none")
    ELSE LET h0 == IF filter # None THEN SetFileTypes(h, FilterSpecs(filter[1])) ELSE h
         IN  IF fail = "SetTitle" THEN Err(h0, m, "SetTitle", "none")
             ELSE LET h1 == SetTitle(h0, get_title("save", title))
                      path == to_str(get_default_path("save", m))
                  IN  IF path = None THEN Panic(h1, m)
                      ELSE IF fail = "SHCreateItemFromParsingName"
                           THEN Err(h1, m, "SHCreateItemFromParsingName", "none")
                      ELSE IF fail = "SetDefaultFolder"
                           THEN Err(h1, m, "SetDefaultFolder", "none")
                      ELSE LET h2 == SetDefaultFolder(h1, to_win32_wide(path[1]))
                               h3 == Show(h2, get_window_handle(m))
                           IN  IF show = "confirmed"
                               THEN save_confirmed(h3, m, fail, chosen)
                               ELSE Out(h3, m, "ok_none", None,
                                        IF show = "failed" THEN "Show" ELSE "none", show)

-----------------------------------------------------------------------------
(* State
     mgr        the Option<FileDialogManager> inside FILE_DIALOG_MANAGER
     lockOwner  the thread holding the mutex (0: nobody)
     poisoned   the mutex was released by a panicking thread
     pc[t]      "idle"        holds no MgrBorrow
                "gos_new"     in get_or_set, try_get returned None
                "gos_get"     in get_or_set, new has returned
                "borrow"      holds a MgrBorrow
                "session"     holds a MgrBorrow and a dialog built on it
                "deadlocked"  locked the mutex again while holding it
                "panicked"    unwound
     args[t]    the arguments of t's get_or_set call: until its call of new,
                or, when the manager exists already, until t's next operation
     handle[t]  the OS dialog object of t's session
     last[t]    what t's latest operation was and what it returned *)

LastNone ==
    [op |-> "none", res |-> "none", val |-> None, failed |-> "none",
     show |-> "none", filter |-> None]
Last(op, res) == [LastNone EXCEPT !.op = op, !.res = res]

Init ==
    /\ mgr = None
    /\ lockOwner = 0
    /\ poisoned = FALSE
    /\ pc = [t \in Threads |-> "idle"]
    /\ args = [t \in Threads |-> None]
    /\ handle = [t \in Threads |-> None]
    /\ last = [t \in Threads |-> LastNone]

(* Mutant of LockFree: a lock that never waits. *)
LockNeverWaits == TRUE

(* Mutex::lock returns only while no guard is alive. *)
LockFree == lockOwner = 0

(* A panic unwinds thread t: its session and its guard are dropped; a guard
   dropped while panicking poisons the mutex. *)
Unwind(t) ==
    /\ pc' = [pc EXCEPT ![t] = "panicked"]
    /\ handle' = [handle EXCEPT ![t] = None]
    /\ last' = [last EXCEPT ![t] = Last("panic", "none")]
    /\ lockOwner' = IF lockOwner = t THEN 0 ELSE lockOwner
    /\ poisoned' = (poisoned \/ lockOwner = t)
    /\ args' = [args EXCEPT ![t] = None]
    /\ UNCHANGED mgr

(* FileDialogManager::new *)
New(t, default, window) ==
    /\ pc[t] = "idle"
    /\ LockFree
    /\ IF poisoned THEN Unwind(t)
       ELSE /\ mgr' = Some(FileDialogManager(default, window))
            /\ last' = [last EXCEPT ![t] = LastNone]
            /\ UNCHANGED <<lockOwner, poisoned, pc, args, handle>>

(* Mutant of TryGet: the guard is kept when the registry is empty. *)
TryGetKeepsLock(t) ==
    /\ pc[t] = "idle"
    /\ LockFree
    /\ IF poisoned THEN Unwind(t)
       ELSE IF mgr # None
       THEN /\ lockOwner' = t
            /\ pc' = [pc EXCEPT ![t] = "borrow"]
            /\ last' = [last EXCEPT ![t] = Last("try_get", "some")]
            /\ UNCHANGED <<mgr, poisoned, args, handle>>
       ELSE /\ lockOwner' = t
            /\ last' = [last EXCEPT ![t] = Last("try_get", "none")]
            /\ UNCHANGED <<mgr, poisoned, pc, args, handle>>

(* FileDialogManager::try_get *)
TryGet(t) ==
    /\ pc[t] = "idle"
    /\ LockFree
    /\ IF poisoned THEN Unwind(t)
       ELSE IF mgr # None
       THEN /\ lockOwner' = t
            /\ pc' = [pc EXCEPT ![t] = "borrow"]
            /\ last' = [last EXCEPT ![t] = Last("try_get", "some")]
            /\ UNCHANGED <<mgr, poisoned, args, handle>>
       ELSE /\ last' = [last EXCEPT ![t] = Last("try_get", "none")]
            /\ UNCHANGED <<mgr, lockOwner, poisoned, pc, args, handle>>

(* FileDialogManager::get *)
Get(t) ==
    /\ pc[t] = "idle"
    /\ LockFree
    /\ IF poisoned \/ mgr = None THEN Unwind(t)
       ELSE /\ lockOwner' = t
            /\ pc' = [pc EXCEPT ![t] = "borrow"]
            /\ last' = [last EXCEPT ![t] = Last("get", "some")]
            /\ UNCHANGED <<mgr, poisoned, args, handle>>

(* Mutant of GosTryGet: the result of try_get is ignored and the registry is
   created anew. *)
GosTryGetAlwaysCreates(t, default, window) ==
    /\ pc[t] = "idle"
    /\ LockFree
    /\ IF poisoned THEN Unwind(t)
       ELSE /\ pc' = [pc EXCEPT ![t] = "gos_new"]
            /\ args' = [args EXCEPT ![t] = Some(FileDialogManager(default, window))]
            /\ last' = [last EXCEPT ![t] = Last("get_or_set", "none")]
            /\ UNCHANGED <<mgr, lockOwner, poisoned, handle>>

(* FileDialogManager::get_or_set, its call of try_get *)
GosTryGet(t, default, window) ==
    /\ pc[t] = "idle"
    /\ LockFree
    /\ IF poisoned THEN Unwind(t)
       ELSE IF mgr # None
       THEN /\ lockOwner' = t
            /\ pc' = [pc EXCEPT ![t] = "borrow"]
            /\ args' = [args EXCEPT ![t] = Some(FileDialogManager(default, window))]
            /\ last' = [last EXCEPT ![t] = Last("get_or_set", "existing")]
            /\ UNCHANGED <<mgr, poisoned, handle>>
       ELSE /\ pc' = [pc EXCEPT ![t] = "gos_new"]
            /\ args' = [args EXCEPT ![t] = Some(FileDialogManager(default, window))]
            /\ last' = [last EXCEPT ![t] = Last("get_or_set", "none")]
            /\ UNCHANGED <<mgr, lockOwner, poisoned, handle>>

(* FileDialogManager::get_or_set, its call of new *)
GosNew(t) ==
    /\ pc[t] = "gos_new"
    /\ LockFree
    /\ IF poisoned THEN Unwind(t)
       ELSE /\ mgr' = Some(FileDialogManager(args[t][1].default, args[t][1].window))
            /\ pc' = [pc EXCEPT ![t] = "gos_get"]
            /\ args' = [args EXCEPT ![t] = None]
            /\ UNCHANGED <<lockOwner, poisoned, handle, last>>

(* FileDialogManager::get_or_set, its call of get *)
GosGet(t) ==
    /\ pc[t] = "gos_get"
    /\ LockFree
    /\ IF poisoned \/ mgr = None THEN Unwind(t)
       ELSE /\ lockOwner' = t
            /\ pc' = [pc EXCEPT ![t] = "borrow"]
            /\ last' = [last EXCEPT ![t] = Last("get_or_set", "created")]
            /\ UNCHANGED <<mgr, poisoned, args, handle>>

(* The MgrBorrow goes out of scope. *)
Release(t) ==
    /\ pc[t] = "borrow"
    /\ lockOwner' = 0
    /\ pc' = [pc EXCEPT ![t] = "idle"]
    /\ args' = [args EXCEPT ![t] = None]
    /\ last' = [last EXCEPT ![t] = LastNone]
    /\ UNCHANGED <<mgr, poisoned, handle>>

(* FileDialogManager::set_default_open, through the borrow *)
SetDefaultOpen(t, value) ==
    /\ pc[t] = "borrow"
    /\ mgr' = Some(set_default_open(mgr[1], value))
    /\ last' = [last EXCEPT ![t] =
                  [Last("set_default_open", "ok") EXCEPT !.val = Some(value)]]
    /\ args' = [args EXCEPT ![t] = None]
    /\ UNCHANGED <<lockOwner, poisoned, pc, handle>>

(* FileDialogManager::set_default_save, through the borrow *)
SetDefaultSave(t, value) ==
    /\ pc[t] = "borrow"
    /\ mgr' = Some(set_default_save(mgr[1], value))
    /\ last' = [last EXCEPT ![t] =
                  [Last("set_default_save", "ok") EXCEPT !.val = Some(value)]]
    /\ args' = [args EXCEPT ![t] = None]
    /\ UNCHANGED <<lockOwner, poisoned, pc, handle>>

(* OpenDialog::new / SaveDialog::new on the borrowed manager; CoCreateInstance
   may fail. *)
NewDialog(t, kind, created) ==
    /\ pc[t] = "borrow"
    /\ IF created
       THEN /\ pc' = [pc EXCEPT ![t] = "session"]
            /\ handle' = [handle EXCEPT ![t] = Some(NewHandle(kind))]
            /\ last' = [last EXCEPT ![t] = Last("dialog_new", "ok")]
       ELSE /\ last' = [last EXCEPT ![t] = Last("dialog_new", "err")]
            /\ UNCHANGED <<pc, handle>>
    /\ args' = [args EXCEPT ![t] = None]
    /\ UNCHANGED <<mgr, lockOwner, poisoned>>

(* The session goes out of scope: the OS handle is released and the manager
   is no longer mutably borrowed. *)
DropDialog(t) ==
    /\ pc[t] = "session"
    /\ pc' = [pc EXCEPT ![t] = "borrow"]
    /\ handle' = [handle EXCEPT ![t] = None]
    /\ last' = [last EXCEPT ![t] = LastNone]
    /\ UNCHANGED <<mgr, lockOwner, poisoned, args>>

(* A session operation returns (or panics) with result `out`. *)
Finish(t, op, filter, out) ==
    IF out.res = "panic" THEN Unwind(t)
    ELSE /\ mgr' = Some(out.m)
         /\ handle' = [handle EXCEPT ![t] = Some(out.h)]
         /\ last' = [last EXCEPT ![t] =
                       [op |-> op, res |-> out.res, val |-> out.val,
                        failed |-> out.failed, show |-> out.show,
                        filter |-> filter]]
         /\ UNCHANGED <<lockOwner, poisoned, pc, args>>

Open(t, filter, title, os) ==
    /\ pc[t] = "session"
    /\ handle[t][1].kind = "open"
    /\ Finish(t, "open", filter,
              open(handle[t][1], mgr[1], filter, title, os.fail, os.show, os.chosen))

OpenFolder(t, title, os) ==
    /\ pc[t] = "session"
    /\ handle[t][1].kind = "open"
    /\ Finish(t, "open_folder", None,
              open_folder(handle[t][1], mgr[1], title, os.fail, os.show, os.chosen))

Save(t, filter, title, os) ==
    /\ pc[t] = "session"
    /\ handle[t][1].kind = "save"
    /\ Finish(t, "save", filter,
              save(handle[t][1], mgr[1], filter, title, os.fail, os.show, os.chosen))

(* A thread that holds the guard locks the mutex again (new, get, try_get or
   get_or_set): the call never returns; it deadlocks or panics. *)
Relock(t, panics) ==
    /\ pc[t] \in {"borrow", "session"}
    /\ IF panics THEN Unwind(t)
       ELSE /\ pc' = [pc EXCEPT ![t] = "deadlocked"]
            /\ args' = [args EXCEPT ![t] = None]
            /\ last' = [last EXCEPT ![t] = Last("relock", "none")]
            /\ UNCHANGED <<mgr, lockOwner, poisoned, handle>>

(* The steps of the registry functions: new, try_get, get, get_or_set, the
   setters, and the end of a borrow. *)
RegStep(t) ==
    \/ \E d \in Paths, w \in Windows : New(t, d, w)
    \/ TryGet(t)
    \/ Get(t)
    \/ \E d \in Paths, w \in Windows : GosTryGet(t, d, w)
    \/ GosNew(t)
    \/ GosGet(t)
    \/ Release(t)
    \/ \E p \in Paths : SetDefaultOpen(t, p)
    \/ \E p \in Paths : SetDefaultSave(t, p)

(* The steps of the dialog sessions. *)
DialogStep(t) ==
    \/ \E k \in {"open", "save"}, c \in BOOLEAN : NewDialog(t, k, c)
    \/ DropDialog(t)
    \/ \E f \in FilterOpts, ti \in TitleOpts, os \in OsOutcomes : Open(t, f, ti, os)
    \/ \E ti \in TitleOpts, os \in OsOutcomes : OpenFolder(t, ti, os)
    \/ \E f \in FilterOpts, ti \in TitleOpts, os \in OsOutcomes : Save(t, f, ti, os)
    \/ \E b \in BOOLEAN : Relock(t, b)

(* Any number of threads, every public operation. *)
Next == \E t \in Threads : RegStep(t) \/ DialogStep(t)

Spec == Init /\ [][Next]_vars

(* Any number of threads, the registry functions only. *)
NextReg == \E t \in Threads : RegStep(t)

SpecReg == Init /\ [][NextReg]_vars

(* One thread uses the registry and the dialogs; the others never run. *)
NextDialog == RegStep(1) \/ DialogStep(1)

SpecDialog == Init /\ [][NextDialog]_vars

(* Only get_or_set callers, freely interleaved. *)
NextGos ==
    \E t \in Threads :
        \/ \E d \in Paths, w \in Windows : GosTryGet(t, d, w)
        \/ GosNew(t)
        \/ GosGet(t)
        \/ Release(t)

SpecGos == Init /\ [][NextGos]_vars

(* get_or_set calls in sequence: a call starts and runs only while no other
   thread is inside a call or holds a borrow. *)
OthersIdle(t) == \A u \in Threads \ {t} : pc[u] = "idle"

NextSeq ==
    \E t \in Threads :
        /\ OthersIdle(t)
        /\ \/ \E d \in Paths, w \in Windows : GosTryGet(t, d, w)
           \/ GosNew(t)
           \/ GosGet(t)
           \/ Release(t)

SpecSeq == Init /\ [][NextSeq]_vars

-----------------------------------------------------------------------------
(* Claims *)

SessionOps == {"open", "open_folder", "save"}

(* Thread t has just returned from a session operation. *)
Returned(t) ==
    /\ pc[t] = "session"
    /\ last'[t].op \in SessionOps
    /\ <<last'[t], handle'[t]>> # <<last[t], handle[t]>>

(* C1: when get_or_set callers race on an uninitialized registry, exactly one
   create happens: once the registry has been written, no step of any
   get_or_set call writes it again, so every caller sees the fields of the one
   create. *)
C1_ExactlyOneCreate == [][mgr # None => mgr' = mgr]_vars

(* While thread u has a session, thread t completes a registry function. *)
CompletesDuring(t, u) ==
    /\ t # u
    /\ handle[u] # None
    /\ \/ TryGet(t)
       \/ Get(t)
       \/ GosNew(t)
       \/ GosGet(t)
       \/ \E d \in Paths, w \in Windows : New(t, d, w) \/ GosTryGet(t, d, w)

(* C2: a dialog session exists only while its thread holds the registry lock,
   so at most one session exists at any instant; a thread holds a borrow only
   as the owner of the lock; and while a session exists no other thread
   completes new, get, try_get or a step of get_or_set. *)
C2_OneSessionUnderLock ==
    /\ [](/\ \A t \in Threads : handle[t] # None => lockOwner = t
          /\ \A t \in Threads :
                pc[t] \in {"borrow", "session", "deadlocked"} => lockOwner = t
          /\ Cardinality({t \in Threads : handle[t] # None}) <= 1)
    /\ [][\A t, u \in Threads : ~CompletesDuring(t, u)]_vars

(* A session has shown its dialog while another thread is in the middle of
   get_or_set, waiting for the lock. *)
C2_Witness ==
    \E t, u \in Threads :
        /\ t # u
        /\ handle[t] # None
        /\ last[t].op = "open" /\ last[t].show = "confirmed"
        /\ pc[u] = "gos_new"

(* C3: with get_or_set calls made in sequence, the registry is created by the
   first call with that call's arguments and no later call changes it: a later
   call with other arguments gets a borrow of the same fields. *)
C3_FirstWriterWins ==
    [][/\ mgr # None => mgr' = mgr
       /\ mgr = None /\ mgr' # None =>
            \E t \in Threads : pc[t] = "gos_new" /\ mgr' = args[t]
       /\ \A t \in Threads :
            pc[t] # "borrow" /\ pc'[t] = "borrow" =>
                lockOwner' = t /\ mgr' # None]_vars

(* A second get_or_set call, with another path and another window, has
   returned its borrow. *)
C3_Witness ==
    \E t \in Threads :
        /\ pc[t] = "borrow"
        /\ last[t].op = "get_or_set" /\ last[t].res = "existing"
        /\ args[t][1].default # mgr[1].default
        /\ args[t][1].window # mgr[1].window

(* C4: a session operation that returns Some(P) was confirmed and has set the
   session's default to P; a confirmed operation whose OS calls all succeed
   returns Some; a cancelled one returns None and leaves the registry as it
   was; and every dialog shown starts from the default the registry held when
   the operation was called. *)
C4_RoundTripDefault ==
    [][\A t \in Threads : Returned(t) =>
        LET kind == handle[t][1].kind
            l == last'[t]
        IN  /\ l.res = "ok_some" =>
                /\ l.show = "confirmed"
                /\ l.val # None
                /\ get_default_path(kind, mgr'[1]) = l.val[1]
                /\ get_window_handle(mgr'[1]) = get_window_handle(mgr[1])
            /\ l.show = "confirmed" /\ l.failed = "none" => l.res = "ok_some"
            /\ l.show = "cancelled" => l.res = "ok_none" /\ l.val = None /\ mgr' = mgr
            /\ l.show # "none" =>
                handle'[t][1].folder = Some(get_default_path(kind, mgr[1]))]_vars

(* open has returned Some(P) from a dialog that started in another folder,
   and the open-default is now P. *)
C4_Witness ==
    \E t \in Threads :
        /\ pc[t] = "session"
        /\ last[t].op = "open" /\ last[t].res = "ok_some"
        /\ handle[t][1].folder # last[t].val
        /\ get_default_open(mgr[1]) = last[t].val[1]

(* C5: open, open_folder and save return Ok(None) only when the user
   dismissed the dialog, and every failed OS call, Show included, makes them
   return Err. *)
C5_NoneOnlyOnDismiss ==
    \A t \in Threads :
        last[t].op \in SessionOps =>
            /\ last[t].res = "ok_none" => last[t].show = "cancelled"
            /\ last[t].failed # "none" => last[t].res = "err"

(* C6: a session operation that returns Err leaves the registry as it was. *)
C6_ErrLeavesRegistry ==
    [][\A t \in Threads :
        Returned(t) /\ last'[t].res = "err" => mgr' = mgr]_vars

(* An operation has returned Err after the user confirmed, because the path
   could not be decoded. *)
C6_Witness ==
    \E t \in Threads :
        /\ last[t].op \in SessionOps
        /\ last[t].res = "err"
        /\ last[t].show = "confirmed"
        /\ last[t].failed = "to_string"

(* C7, as claimed: set_default_open leaves get_default_save unchanged and
   set_default_save leaves get_default_open unchanged. *)
C7_Independent ==
    [][\A t \in Threads, p \in Paths :
        /\ SetDefaultOpen(t, p) =>
             get_default_save(mgr'[1]) = get_default_save(mgr[1])
        /\ SetDefaultSave(t, p) =>
             get_default_open(mgr'[1]) = get_default_open(mgr[1])]_vars

(* C7, amended: the two defaults are one: after set_default_open(p) or
   set_default_save(p) both getters return p and the window is unchanged, and
   after a session operation returns Some(P) both getters return P. *)
C7_SharedDefault ==
    [][/\ \A t \in Threads, p \in Paths :
            SetDefaultOpen(t, p) \/ SetDefaultSave(t, p) =>
                /\ get_default_open(mgr'[1]) = p
                /\ get_default_save(mgr'[1]) = p
                /\ get_window_handle(mgr'[1]) = get_window_handle(mgr[1])
       /\ \A t \in Threads :
            Returned(t) /\ last'[t].res = "ok_some" =>
                /\ get_default_open(mgr'[1]) = last'[t].val[1]
                /\ get_default_save(mgr'[1]) = last'[t].val[1]]_vars

(* set_default_open(p) has run and get_default_save returns p. *)
C7_Witness ==
    \E t \in Threads :
        /\ last[t].op = "set_default_open"
        /\ get_default_save(mgr[1]) = last[t].val[1]

(* C8, as claimed: once created, the registry never returns to the
   uninitialized state and its window handle never changes. *)
C8_WindowFixed ==
    [][mgr # None =>
        /\ mgr' # None
        /\ get_window_handle(mgr'[1]) = get_window_handle(mgr[1])]_vars

(* C8, amended: once created, the registry never returns to the uninitialized
   state, and its window handle changes only in a step of new, called directly
   or by get_or_set. *)
C8_WindowChangedOnlyByNew ==
    [][mgr # None =>
        /\ mgr' # None
        /\ get_window_handle(mgr'[1]) # get_window_handle(mgr[1]) =>
             \E t \in Threads :
                \/ GosNew(t)
                \/ \E d \in Paths, w \in Windows : New(t, d, w)]_vars

(* A session operation has changed the default of a created registry while
   another thread is about to run the create step of get_or_set. *)
C8_Witness ==
    \E t, u \in Threads :
        /\ mgr # None
        /\ last[t].op \in SessionOps /\ last[t].res = "ok_some"
        /\ pc[u] = "gos_new"
        /\ args[u][1].window # get_window_handle(mgr[1])

(* C9: on an uninitialized registry try_get returns None and get panics;
   either way the registry is still uninitialized and the lock is free and
   not poisoned, so a later new or get_or_set can take it. *)
C9_UninitializedAccess ==
    [][\A t \in Threads : mgr = None =>
        /\ TryGet(t) =>
            /\ last'[t].op = "try_get" /\ last'[t].res = "none"
            /\ pc'[t] = "idle"
            /\ mgr' = None /\ lockOwner' = 0 /\ ~poisoned'
        /\ Get(t) =>
            /\ pc'[t] = "panicked"
            /\ mgr' = None /\ lockOwner' = 0 /\ ~poisoned']_vars

(* try_get has returned None to one thread and get has panicked in another,
   and the registry is uninitialized with the lock free. *)
C9_Witness ==
    \E t, u \in Threads :
        /\ last[t].op = "try_get" /\ last[t].res = "none"
        /\ pc[u] = "panicked"
        /\ mgr = None /\ lockOwner = 0 /\ ~poisoned

(* C10: the dialog an open call shows is configured by that call alone: it is
   not restricted to folders, and without filters it has no file types. *)
C10_ConfiguredByCallOnly ==
    \A t \in Threads :
        handle[t] # None /\ last[t].op = "open" /\ last[t].show # "none" =>
            /\ ~handle[t][1].pick
            /\ last[t].filter = None => handle[t][1].types = None

====
